---- MODULE Spec2Model ----
(***************************************************************************)
(* Model of the plumber dispatcher webhook backend (src/main.py): the four *)
(* tool endpoints, the Google Calendar collaborator they call, and the     *)
(* request-model validation that runs before each handler.                 *)
(*                                                                         *)
(* Strings are sequences of tokens; concatenation is \o.  A datetime is a  *)
(* record of its fields, so parsing and formatting are real conversions.   *)
(***************************************************************************)
EXTENDS Bags, FiniteSets, Integers, Sequences, TLC

VARIABLES creds, twilio, calendar, pc, req, local, calls, resp

vars == <<creds, twilio, calendar, pc, req, local, calls, resp>>

\* ------------------------------------------------------------------------
\* Bounds
\* ------------------------------------------------------------------------

\* most events the calendar holds (pre-existing ones included)
MaxEvents == 2

\* request workers that may be in flight at the same time
Procs == {"w1", "w2"}

\* ------------------------------------------------------------------------
\* Configuration (src/main.py:20-24)
\* ------------------------------------------------------------------------

SERVICE_AREA_ZIPS == <<"15201", "15202", "15203", "15212", "15213", "15222", "15232">>

maxResults == 10

\* ------------------------------------------------------------------------
\* datetime: the part of Python's datetime the booking handler relies on
\* ------------------------------------------------------------------------

\* proleptic Gregorian ordinals of the dates the model uses
DateOrdinal ==
  [d \in {"2026-01-12", "2026-01-13", "2026-01-14", "2026-01-31", "2026-02-01", "9999-12-31"} |->
     CASE d = "2026-01-12" -> 739628
       [] d = "2026-01-13" -> 739629
       [] d = "2026-01-14" -> 739630
       [] d = "2026-01-31" -> 739647
       [] d = "2026-02-01" -> 739648
       [] d = "9999-12-31" -> 3652059]

\* datetime.max is 9999-12-31T23:59:59.999999
DateMaxOrdinal == DateOrdinal["9999-12-31"]

HH == <<"00", "01", "02", "03", "04", "05", "06", "07", "08", "09", "10", "11",
        "12", "13", "14", "15", "16", "17", "18", "19", "20", "21", "22", "23">>

MinuteOf == [ms \in {":00:00", ":30:00"} |-> IF ms = ":00:00" THEN 0 ELSE 30]

\* utcoffset in minutes of the offsets the model uses
OffsetMinutes == [o \in {"+00:00", "-05:00"} |-> IF o = "+00:00" THEN 0 ELSE 0 - 300]

Naive == "naive"

\* str.replace(old, new): every occurrence of the token is replaced
str_replace(s, old, new) == [i \in 1..Len(s) |-> IF s[i] = old THEN new ELSE s[i]]

HourOf(hh) == (CHOOSE i \in 1..24 : HH[i] = hh) - 1

ValueError(s) == <<"Invalid isoformat string: ", "'">> \o s \o <<"'">>

OverflowError == <<"date value out of range">>

\* datetime.fromisoformat: YYYY-MM-DD, optionally followed by THH:MM:SS and
\* an offset +HH:MM; anything else raises ValueError
fromisoformat(s) ==
  LET dateOk == Len(s) >= 1 /\ s[1] \in DOMAIN DateOrdinal
      timeOk == Len(s) >= 4 /\ s[2] = "T" /\ (\E i \in 1..24 : HH[i] = s[3])
                  /\ s[4] \in DOMAIN MinuteOf
  IN  CASE dateOk /\ Len(s) = 1 ->
             [ok |-> TRUE, dt |-> [date |-> s[1], hour |-> 0, ms |-> ":00:00", tz |-> Naive]]
        [] dateOk /\ timeOk /\ Len(s) = 4 ->
             [ok |-> TRUE, dt |-> [date |-> s[1], hour |-> HourOf(s[3]), ms |-> s[4], tz |-> Naive]]
        [] dateOk /\ timeOk /\ Len(s) = 5 /\ s[5] \in DOMAIN OffsetMinutes ->
             [ok |-> TRUE, dt |-> [date |-> s[1], hour |-> HourOf(s[3]), ms |-> s[4], tz |-> s[5]]]
        [] OTHER -> [ok |-> FALSE, err |-> ValueError(s)]

\* datetime.isoformat
isoformat(dt) ==
  <<dt.date, "T", HH[dt.hour + 1], dt.ms>> \o (IF dt.tz = Naive THEN <<>> ELSE <<dt.tz>>)

DateOfOrdinal(n) == CHOOSE d \in DOMAIN DateOrdinal : DateOrdinal[d] = n

\* dt + datetime.timedelta(hours=1): wall-clock fields move, the offset stays;
\* past datetime.max it raises OverflowError
add_one_hour(dt) ==
  IF dt.hour < 23
    THEN [ok |-> TRUE, dt |-> [dt EXCEPT !.hour = dt.hour + 1]]
    ELSE IF DateOrdinal[dt.date] + 1 > DateMaxOrdinal
           THEN [ok |-> FALSE, err |-> OverflowError]
           ELSE [ok |-> TRUE,
                 dt |-> [dt EXCEPT !.hour = 0,
                                   !.date = DateOfOrdinal(DateOrdinal[dt.date] + 1)]]

\* minutes since ordinal 0, UTC (a naive value is read as UTC)
Instant(dt) ==
  (DateOrdinal[dt.date] * 24 + dt.hour) * 60 + MinuteOf[dt.ms]
    - (IF dt.tz = Naive THEN 0 ELSE OffsetMinutes[dt.tz])

\* ------------------------------------------------------------------------
\* Strings and responses
\* ------------------------------------------------------------------------

\* s contains sub as a contiguous piece
Contains(s, sub) ==
  \E i \in 0..(Len(s) - Len(sub)) : \A j \in 1..Len(sub) : s[i + j] = sub[j]

\* sep.join(items)
RECURSIVE join(_, _)
join(sep, items) ==
  IF Len(items) = 0 THEN <<>>
  ELSE IF Len(items) = 1 THEN items[1]
  ELSE items[1] \o sep \o join(sep, Tail(items))

\* a handler's returned dict, serialised as the JSON response
Json(body) == [kind |-> "json", body |-> body]

\* the framework's answer when the request model rejects the body (422) or
\* when the handler raises (500): no handler result, no status field
Fault(code, error) == [kind |-> "fault", code |-> code, error |-> error]

NoResponse == [kind |-> "none"]

Status(r) == IF r.kind = "json" /\ "status" \in DOMAIN r.body THEN r.body.status ELSE "none"

Message(r) == IF r.kind = "json" /\ "message" \in DOMAIN r.body THEN r.body.message ELSE <<>>

\* pydantic: every field declared without a default must be present
Validates(required, body) == required \subseteq DOMAIN body

\* ------------------------------------------------------------------------
\* The calendar collaborator (events().list / events().insert)
\* ------------------------------------------------------------------------

None == "None"

\* variant: the credentials test is missing
get_google_service_always(c) == "service"

get_google_service(c) == IF ~c THEN None ELSE "service"

\* instant of an event's start or end: a dateTime, or a date for all-day events
EventInstant(t) ==
  IF "dateTime" \in DOMAIN t
    THEN Instant(fromisoformat(str_replace(t.dateTime, "Z", "+00:00")).dt)
    ELSE DateOrdinal[t.date] * 24 * 60

RECURSIVE SortByStart(_)
SortByStart(B) ==
  IF BagToSet(B) = {} THEN <<>>
  ELSE LET S == BagToSet(B)
           e == CHOOSE x \in S : \A y \in S : EventInstant(x.start) <= EventInstant(y.start)
       IN  <<e>> \o SortByStart(B (-) SetToBag({e}))

Take(s, n) == SubSeq(s, 1, IF Len(s) < n THEN Len(s) ELSE n)

Upcoming(cal, timeMin) ==
  LET S == {e \in BagToSet(cal) : EventInstant(e.end) > EventInstant([dateTime |-> timeMin])}
  IN  [e \in S |-> cal[e]]

\* events().list(timeMin=now, maxResults=10, singleEvents=True,
\* orderBy='startTime').execute().get('items', [])
events_list(cal, timeMin) == Take(SortByStart(Upcoming(cal, timeMin)), maxResults)

Overlaps(a, b) ==
  /\ EventInstant(a.start) < EventInstant(b.end)
  /\ EventInstant(b.start) < EventInstant(a.end)

\* variant: an insertion overlapping an existing event is dropped
events_insert_no_overlap(cal, body) ==
  IF \E e \in BagToSet(cal) : Overlaps(e, body) THEN cal ELSE cal (+) SetToBag({body})

\* variant: the insertion overwrites the calendar
events_insert_replace(cal, body) == SetToBag({body})

\* events().insert(calendarId, body).execute(): one more event, nothing else touched
events_insert(cal, body) == cal (+) SetToBag({body})

\* ------------------------------------------------------------------------
\* Handlers, as functions of their inputs
\* ------------------------------------------------------------------------

InList(x, l) == \E i \in 1..Len(l) : l[i] = x

\* variant: the membership test misses the last zip code of the list
check_service_area_short(zip_code) ==
  IF InList(zip_code, SubSeq(SERVICE_AREA_ZIPS, 1, Len(SERVICE_AREA_ZIPS) - 1))
    THEN [result |-> "authorized", message |-> <<"You are in our service area.">>]
    ELSE [result |-> "out_of_area",
          message |-> <<"Unfortunately, we do not service that zip code.">>]

check_service_area(zip_code) ==
  IF InList(zip_code, SERVICE_AREA_ZIPS)
    THEN [result |-> "authorized", message |-> <<"You are in our service area.">>]
    ELSE [result |-> "out_of_area",
          message |-> <<"Unfortunately, we do not service that zip code.">>]

Offline == [status |-> "error", message |-> <<"Calendar system is offline.">>]

\* EmergencyReport: every field optional, with a default
Field(data, name, default) == IF name \in DOMAIN data THEN data[name] ELSE default

sms_body(data) ==
  <<"NEW JOB: ">> \o Field(data, "issue_type", <<"Unspecified Emergency">>)
    \o <<" - ">> \o Field(data, "customer_phone", <<"No Number Provided">>)

\* e['start'].get('dateTime', 'All Day')
start_text(e) == IF "dateTime" \in DOMAIN e.start THEN e.start.dateTime ELSE <<"All Day">>

busy_item(e) == start_text(e) \o <<" (">> \o e.summary \o <<")">>

KeyError(k) == <<"KeyError: '", k, "'">>

\* lines 109-115: what check_availability makes of the events the query returned
availability_result(events) ==
  IF Len(events) = 0
    THEN Json([status |-> "free",
               message |-> <<"I am completely wide open for the next 2 days.">>])
  ELSE IF \E i \in 1..Len(events) : "summary" \notin DOMAIN events[i]
    THEN Fault(500, KeyError("summary"))
  ELSE Json([status |-> "busy",
             message |-> <<"I have appointments at these times: ">>
                           \o join(<<", ">>, [i \in 1..Len(events) |-> busy_item(events[i])])
                           \o <<". Any other time is good.">>])

\* variant: the end is stamped with the start
event_body_no_end(data, start_dt, end_dt) ==
  [summary     |-> <<"PLUMBING: ">> \o data.customer_name,
   description |-> <<"Phone: ">> \o data.customer_phone,
   start       |-> [dateTime |-> isoformat(start_dt), timeZone |-> "UTC"],
   end         |-> [dateTime |-> isoformat(start_dt), timeZone |-> "UTC"]]

\* lines 129-134
event_body(data, start_dt, end_dt) ==
  [summary     |-> <<"PLUMBING: ">> \o data.customer_name,
   description |-> <<"Phone: ">> \o data.customer_phone,
   start       |-> [dateTime |-> isoformat(start_dt), timeZone |-> "UTC"],
   end         |-> [dateTime |-> isoformat(end_dt), timeZone |-> "UTC"]]

\* lines 126-134: the try block up to the insert call; err is str(e)
book_try(data) ==
  LET parsed == fromisoformat(str_replace(data.start_time, "Z", "+00:00"))
  IN  IF ~parsed.ok THEN [ok |-> FALSE, err |-> parsed.err]
      ELSE LET ended == add_one_hour(parsed.dt)
           IN  IF ~ended.ok THEN [ok |-> FALSE, err |-> ended.err]
               ELSE [ok |-> TRUE, body |-> event_body(data, parsed.dt, ended.dt)]

BookFailed(err) == [status |-> "error", message |-> <<"Failed to book: ">> \o err]

BookConfirmed ==
  [status |-> "success", message |-> <<"Appointment confirmed and added to calendar.">>]

\* ------------------------------------------------------------------------
\* Inputs
\* ------------------------------------------------------------------------

Names == {<<"Ann">>, <<"Bob">>}

Phone == <<"412-555-0100">>

StartZ == <<"2026-01-12", "T", "15", ":00:00", "Z">>

StartNaive == <<"2026-01-12", "T", "15", ":30:00">>

StartLate == <<"2026-01-31", "T", "23", ":30:00", "-05:00">>

StartMax == <<"9999-12-31", "T", "23", ":30:00">>

StartDate == <<"2026-01-12">>

StartTimes == {StartZ, StartNaive, StartLate, StartDate, StartMax, <<"tomorrow">>}

\* JSON bodies sent to /book-appointment; the last ones carry no start_time
BookingBodies ==
  [customer_name : Names, customer_phone : {Phone}, start_time : StartTimes]
    \cup [customer_name : Names, customer_phone : {Phone}]

\* JSON bodies sent to /check-availability; the second names the field date
AvailabilityBodies == {[day |-> <<"tomorrow">>], [date |-> <<"tomorrow">>]}

\* datetime.utcnow().isoformat() + 'Z' at the time of the call
Nows == {<<"2026-01-12", "T", "00", ":00:00", "Z">>, <<"2026-01-13", "T", "00", ":00:00", "Z">>}

Zips == {SERVICE_AREA_ZIPS[i] : i \in 1..Len(SERVICE_AREA_ZIPS)} \cup {"15204", "90210"}

\* query strings sent to /check-service-area; the last uses the alias zip
ZipQueries == [zip_code : Zips] \cup {[zip |-> "15201"]}

EmergencyBodies ==
  {[issue_type |-> <<"Burst pipe">>, customer_phone |-> Phone, zip_code |-> <<"15201">>],
   [severity |-> <<"High">>]}

\* events other calendar users put there: one without a title, one all-day
UntitledEvent ==
  [description |-> <<"lunch">>,
   start |-> [dateTime |-> <<"2026-01-13", "T", "12", ":00:00", "Z">>, timeZone |-> "UTC"],
   end   |-> [dateTime |-> <<"2026-01-13", "T", "13", ":00:00", "Z">>, timeZone |-> "UTC"]]

AllDayEvent ==
  [summary |-> <<"Holiday">>,
   start |-> [date |-> "2026-01-13"],
   end   |-> [date |-> "2026-01-14"]]

InitialCalendars == {EmptyBag, SetToBag({UntitledEvent}), SetToBag({AllDayEvent})}

ListError == <<"<HttpError 403 when requesting events.list>">>

InsertError == <<"<HttpError 403 when requesting events.insert>">>

\* ------------------------------------------------------------------------
\* State machine
\* ------------------------------------------------------------------------

NoRequest == [op |-> "none"]

NoLocal == [kind |-> "none"]

NoCalls == [parse |-> FALSE, list |-> 0, insert |-> 0, sms |-> 0, raised |-> "none"]

Init ==
  /\ creds \in BOOLEAN
  /\ twilio \in BOOLEAN
  /\ calendar \in InitialCalendars
  /\ pc = [p \in Procs |-> "idle"]
  /\ req = [p \in Procs |-> NoRequest]
  /\ local = [p \in Procs |-> NoLocal]
  /\ calls = [p \in Procs |-> NoCalls]
  /\ resp = [p \in Procs |-> NoResponse]

Ready(p) == pc[p] \in {"idle", "done"}

\* the handler of worker p returns r, having made the calls c with the locals l
Finish(p, r, c, l) ==
  /\ pc' = [pc EXCEPT ![p] = "done"]
  /\ resp' = [resp EXCEPT ![p] = r]
  /\ calls' = [calls EXCEPT ![p] = c]
  /\ local' = [local EXCEPT ![p] = l]

\* GET /
home(p) ==
  /\ Ready(p)
  /\ req' = [req EXCEPT ![p] = [op |-> "home"]]
  /\ Finish(p, Json([status |-> "The Plumber Dispatcher is Online"]), NoCalls, NoLocal)
  /\ UNCHANGED <<creds, twilio, calendar>>

\* POST /check-service-area
CheckServiceArea(p, query) ==
  /\ Ready(p)
  /\ req' = [req EXCEPT ![p] = [op |-> "check_service_area", data |-> query]]
  /\ IF ~Validates({"zip_code"}, query)
       THEN Finish(p, Fault(422, <<"field required">>), NoCalls, NoLocal)
       ELSE Finish(p, Json(check_service_area(query.zip_code)), NoCalls, NoLocal)
  /\ UNCHANGED <<creds, twilio, calendar>>

\* POST /report-emergency; delivered: messages.create returns rather than
\* raises (the except clause swallows the failure)
ReportEmergency(p, data, delivered) ==
  /\ Ready(p)
  /\ req' = [req EXCEPT ![p] = [op |-> "report_emergency", data |-> data]]
  /\ Finish(p, Json([status |-> "success", message |-> <<"Dispatcher alerted.">>]),
            IF twilio
              THEN [NoCalls EXCEPT !.sms = 1, !.raised = IF delivered THEN "none" ELSE "sms"]
              ELSE NoCalls,
            IF twilio THEN [kind |-> "sms", body |-> sms_body(data)] ELSE NoLocal)
  /\ UNCHANGED <<creds, twilio, calendar>>

\* POST /check-availability, up to the events().list call
CheckAvailabilityCall(p, data, now) ==
  /\ Ready(p)
  /\ req' = [req EXCEPT ![p] = [op |-> "check_availability", data |-> data]]
  /\ IF ~Validates({"day"}, data)
       THEN Finish(p, Fault(422, <<"field required">>), NoCalls, NoLocal)
     ELSE IF get_google_service(creds) = None
       THEN Finish(p, Json(Offline), NoCalls, NoLocal)
     ELSE /\ pc' = [pc EXCEPT ![p] = "listing"]
          /\ local' = [local EXCEPT ![p] = [kind |-> "list", timeMin |-> now, items |-> <<>>]]
          /\ calls' = [calls EXCEPT ![p] = [NoCalls EXCEPT !.list = 1]]
          /\ resp' = [resp EXCEPT ![p] = NoResponse]
  /\ UNCHANGED <<creds, twilio, calendar>>

\* events().list(...).execute() returns, or raises: nothing catches it
CheckAvailabilityReturn(p, ok) ==
  /\ pc[p] = "listing"
  /\ IF ok
       THEN LET events == events_list(calendar, local[p].timeMin)
            IN  Finish(p, availability_result(events), calls[p],
                       [local[p] EXCEPT !.items = events])
       ELSE Finish(p, Fault(500, ListError), [calls[p] EXCEPT !.raised = "list"], local[p])
  /\ UNCHANGED <<creds, twilio, calendar, req>>

\* the calendar has room for the events being inserted and one more
Room == BagCardinality(calendar) + Cardinality({q \in Procs : pc[q] = "inserting"}) < MaxEvents

\* POST /book-appointment, up to the events().insert call
BookAppointmentCall(p, data) ==
  /\ Ready(p)
  /\ Room
  /\ req' = [req EXCEPT ![p] = [op |-> "book_appointment", data |-> data]]
  /\ IF ~Validates({"customer_name", "customer_phone", "start_time"}, data)
       THEN Finish(p, Fault(422, <<"field required">>), NoCalls, NoLocal)
     ELSE IF get_google_service(creds) = None
       THEN Finish(p, Json(Offline), NoCalls, NoLocal)
     ELSE LET t == book_try(data)
          IN  IF ~t.ok
                THEN Finish(p, Json(BookFailed(t.err)), [NoCalls EXCEPT !.parse = TRUE], NoLocal)
                ELSE /\ pc' = [pc EXCEPT ![p] = "inserting"]
                     /\ local' = [local EXCEPT ![p] = [kind |-> "insert", body |-> t.body]]
                     /\ calls' = [calls EXCEPT ![p] = [NoCalls EXCEPT !.parse = TRUE, !.insert = 1]]
                     /\ resp' = [resp EXCEPT ![p] = NoResponse]
  /\ UNCHANGED <<creds, twilio, calendar>>

\* events().insert(...).execute() returns, or raises into the except clause
BookAppointmentReturn(p, ok) ==
  /\ pc[p] = "inserting"
  /\ IF ok
       THEN /\ calendar' = events_insert(calendar, local[p].body)
            /\ Finish(p, Json(BookConfirmed), calls[p], local[p])
       ELSE /\ calendar' = calendar
            /\ Finish(p, Json(BookFailed(InsertError)), [calls[p] EXCEPT !.raised = "insert"],
                      local[p])
  /\ UNCHANGED <<creds, twilio, req>>

\* one server process: the event loop runs one handler at a time
Server == "w1"

Next ==
  \/ home(Server)
  \/ \E query \in ZipQueries : CheckServiceArea(Server, query)
  \/ \E data \in EmergencyBodies, delivered \in BOOLEAN : ReportEmergency(Server, data, delivered)
  \/ \E data \in AvailabilityBodies, now \in Nows : CheckAvailabilityCall(Server, data, now)
  \/ \E ok \in BOOLEAN : CheckAvailabilityReturn(Server, ok)
  \/ \E data \in BookingBodies : BookAppointmentCall(Server, data)
  \/ \E ok \in BOOLEAN : BookAppointmentReturn(Server, ok)

Spec == Init /\ [][Next]_vars

\* several server processes: calendar requests of different workers interleave
\* at their calendar calls
NextWorkers ==
  \/ \E p \in Procs, data \in AvailabilityBodies, now \in Nows :
       CheckAvailabilityCall(p, data, now)
  \/ \E p \in Procs, ok \in BOOLEAN : CheckAvailabilityReturn(p, ok)
  \/ \E p \in Procs, data \in BookingBodies : BookAppointmentCall(p, data)
  \/ \E p \in Procs, ok \in BOOLEAN : BookAppointmentReturn(p, ok)

SpecWorkers == Init /\ [][NextWorkers]_vars

\* ------------------------------------------------------------------------
\* Vocabulary of the properties
\* ------------------------------------------------------------------------

Done(p, op) == pc[p] = "done" /\ req[p].op = op

\* the request reached its handler: the request model accepted the body
Accepted(p) ==
  CASE req[p].op = "check_service_area" -> Validates({"zip_code"}, req[p].data)
    [] req[p].op = "check_availability" -> Validates({"day"}, req[p].data)
    [] req[p].op = "book_appointment" ->
         Validates({"customer_name", "customer_phone", "start_time"}, req[p].data)
    [] OTHER -> TRUE

Normalized(p) == str_replace(req[p].data.start_time, "Z", "+00:00")

Parses(p) == fromisoformat(Normalized(p)).ok

\* the insertion of worker p went through
Inserted(p) == Done(p, "book_appointment") /\ calls[p].insert = 1 /\ calls[p].raised = "none"

Msg(p) == Message(resp[p])

\* ------------------------------------------------------------------------
\* Properties
\* ------------------------------------------------------------------------

\* C1: when the events().list call of /check-availability raises, the handler
\* catches it and returns status error; the failure never reaches the caller.
C1_ListFailureReturnsError ==
  \A p \in Procs :
    (Done(p, "check_availability") /\ calls[p].raised = "list")
      => (resp[p].kind = "json" /\ Status(resp[p]) = "error")

\* C2: /book-appointment with a missing or unparsable start_time returns
\* status error and attempts no insertion, whether or not credentials are set.
C2_BadStartTimeReturnsError ==
  \A p \in Procs :
    (Done(p, "book_appointment")
       /\ ("start_time" \notin DOMAIN req[p].data \/ ~Parses(p)))
      => (Status(resp[p]) = "error" /\ calls[p].insert = 0)

\* C3 as stated: with credentials unset both calendar endpoints return status
\* error, /check-availability without a calendar call, and /book-appointment
\* after having attempted to parse start_time.
C3_ParseBeforeOffline ==
  ~creds =>
    \A p \in Procs :
      /\ (Done(p, "check_availability") /\ Accepted(p))
           => (Status(resp[p]) = "error" /\ calls[p].list = 0)
      /\ (Done(p, "book_appointment") /\ Accepted(p))
           => (Status(resp[p]) = "error" /\ calls[p].parse)

\* C3 amended: with credentials unset no calendar call and no parse of
\* start_time is ever attempted; a request its request model accepts returns
\* the fixed offline error (whatever start_time holds), and a body lacking a
\* required field gets the validation fault instead of a handler result.
C3_OfflineBeforeParse ==
  ~creds =>
    \A p \in Procs :
      /\ pc[p] \notin {"listing", "inserting"}
      /\ calls[p].list = 0 /\ calls[p].insert = 0 /\ ~calls[p].parse
      /\ (Done(p, "check_availability") \/ Done(p, "book_appointment"))
           => IF Accepted(p) THEN resp[p] = Json(Offline) ELSE resp[p].kind = "fault"

C3_Witness ==
  /\ ~creds
  /\ Done(Server, "book_appointment") /\ Accepted(Server) /\ ~Parses(Server)
  /\ resp[Server] = Json(Offline)

\* the insertion worker p issued carries the slot of its request: the start is
\* the parsed instant, the end is one hour later at the same offset, the
\* summary names the customer; once the call went through the event is in the
\* calendar
SlotOfRequest(p) ==
  LET b == local[p].body
      start == fromisoformat(Normalized(p)).dt
  IN  /\ fromisoformat(b.start.dateTime).ok
      /\ fromisoformat(b.start.dateTime).dt = start
      /\ fromisoformat(b.end.dateTime).ok
      /\ fromisoformat(b.end.dateTime).dt.tz = start.tz
      /\ EventInstant(b.end) = EventInstant(b.start) + 60
      /\ b.summary = <<"PLUMBING: ">> \o req[p].data.customer_name
      /\ req[p].data.start_time = StartZ
           => /\ b.start.dateTime = <<"2026-01-12", "T", "15", ":00:00", "+00:00">>
              /\ b.end.dateTime = <<"2026-01-12", "T", "16", ":00:00", "+00:00">>
      /\ Inserted(p) => BagIn(b, calendar)

\* the request of worker p is past its parse, with a calendar client
BookingParsed(p) ==
  /\ req[p].op = "book_appointment" /\ pc[p] \in {"inserting", "done"}
  /\ Accepted(p) /\ creds /\ Parses(p)

\* C4 as stated: every booking whose start_time parses, with a calendar client,
\* issues exactly one insertion carrying the parsed start, an end one hour
\* later and a summary naming the customer.
C4_EveryParsedStartInserted ==
  \A p \in Procs : BookingParsed(p) => (calls[p].insert = 1 /\ SlotOfRequest(p))

\* start + one hour is still a datetime: not in the last hour of year 9999
Representable(p) ==
  LET start == fromisoformat(Normalized(p)).dt
  IN  ~(start.date = "9999-12-31" /\ start.hour = 23)

\* C4 amended: the same, for start times whose end (start plus one hour) does
\* not pass the largest datetime, 9999-12-31T23:59:59.
C4_RepresentableStartInserted ==
  \A p \in Procs :
    (BookingParsed(p) /\ Representable(p)) => (calls[p].insert = 1 /\ SlotOfRequest(p))

C4_Witness ==
  /\ Inserted(Server) /\ req[Server].data.start_time = StartZ
  /\ BagIn(local[Server].body, calendar)

\* C5: when the query succeeds, /check-availability returns free exactly when
\* no event came back, and otherwise busy with every returned event's start
\* time and summary in the message.
C5_FreeIffNoEvents ==
  \A p \in Procs :
    (Done(p, "check_availability") /\ calls[p].list = 1 /\ calls[p].raised = "none")
      => LET ev == local[p].items
         IN  /\ Status(resp[p]) = "free" <=> Len(ev) = 0
             /\ Len(ev) > 0 =>
                  /\ Status(resp[p]) = "busy"
                  /\ \A i \in 1..Len(ev) :
                       /\ "dateTime" \in DOMAIN ev[i].start
                            => Contains(Msg(p), ev[i].start.dateTime)
                       /\ "summary" \in DOMAIN ev[i] => Contains(Msg(p), ev[i].summary)

\* C6: a /book-appointment that fails (no calendar client, start_time does not
\* parse, or the insertion raises) returns status error with a generic
\* message that does not carry the failure's own text.
C6_GenericFailureMessage ==
  \A p \in Procs :
    (Done(p, "book_appointment") /\ Accepted(p)
       /\ (~creds \/ ~Parses(p) \/ calls[p].raised = "insert"))
      => /\ resp[p].kind = "json" /\ Status(resp[p]) = "error"
         /\ ~Contains(Msg(p), InsertError)
         /\ ~Contains(Msg(p), ValueError(Normalized(p)))

\* C7: /check-service-area answers authorized exactly for the seven zip codes
\* of the service area and out_of_area for any other, whatever else the
\* server has done; asking again with the same zip code gives the same answer.
C7_ServiceAreaByZip ==
  /\ [](\A p \in Procs :
          (Done(p, "check_service_area") /\ Accepted(p))
            => /\ resp[p].kind = "json"
               /\ resp[p].body.result =
                    IF req[p].data.zip_code \in
                         {"15201", "15202", "15203", "15212", "15213", "15222", "15232"}
                      THEN "authorized" ELSE "out_of_area")
  /\ [][\A p \in Procs :
          (Done(p, "check_service_area") /\ req'[p] = req[p]) => resp'[p] = resp[p]]_vars

C7_Witness ==
  /\ Done(Server, "check_service_area") /\ Accepted(Server)
  /\ req[Server].data.zip_code = "15232"
  /\ resp[Server].body.result = "authorized"
  /\ BagCardinality(calendar) = MaxEvents

\* C8: a booking whose insertion goes through returns success and its event is
\* in the calendar, once per such booking, whatever the calendar already
\* holds: identical or overlapping bookings are never rejected or merged.
C8_OverlappingBookingsBothKept ==
  \A p \in Procs :
    Inserted(p)
      => /\ Status(resp[p]) = "success"
         /\ CopiesIn(local[p].body, calendar)
              >= Cardinality({q \in Procs : Inserted(q) /\ local[q].body = local[p].body})

C8_Witness ==
  \E p, q \in Procs :
    /\ p # q /\ Inserted(p) /\ Inserted(q)
    /\ Overlaps(local[p].body, local[q].body)
    /\ local[p].body # local[q].body
    /\ BagIn(local[p].body, calendar) /\ BagIn(local[q].body, calendar)

C10_UntitledListedAsBusy ==
  \A p \in Procs :
    (Done(p, "check_availability") /\ calls[p].list = 1 /\ calls[p].raised = "none")
      => LET ev == local[p].items
         IN  \A i \in 1..Len(ev) :
               "summary" \notin DOMAIN ev[i]
                 => /\ Status(resp[p]) = "busy"
                    /\ Contains(Msg(p), start_text(ev[i]) \o <<" (", "Busy", ")">>)

====
